---- MODULE Spec2Model ----
(***************************************************************************)
(* Laser2D (src/Chapter 06. Mapping/laser/laser2D.py): a simulated 2D      *)
(* range sensor.  The sensor holds a configuration and a pose;             *)
(* take_observation(map) casts n_beams beams against the segments of the   *)
(* map and returns a 2 x n_beams table of ranges and bearings.             *)
(*                                                                         *)
(* Numbers.  The code computes in doubles; the model computes exactly.     *)
(*  - Angles are integers counting quarter turns (1 = pi/2, Pi = 2), so    *)
(*    every beam lies on an axis and np.cos/np.sin are the exact table     *)
(*    Cos/Sin.  (In doubles cos(pi/2) is 6e-17, not 0: a beam parallel to  *)
(*    a segment then meets its line about 1e16 away, where the membership  *)
(*    test rejects it; here div = 0 skips the segment.  Same range.)       *)
(*  - FOV is an even number of quarter turns, so that FOV/2 is exact.      *)
(*  - Map points and the pose position are integers; an intersection       *)
(*    point has rational coordinates, kept as <<xn, yn, q>> = (xn/q, yn/q) *)
(*    with q > 0; a range is a rational <<n, d>> in lowest terms.          *)
(*  - The angle phi_m of an intersection is kept as a sector: 2k is        *)
(*    exactly k quarter turns, 2k+1 is strictly between k and k+1 quarter  *)
(*    turns; adding pi/2, comparing with +-pi, subtracting 2 pi and        *)
(*    np.sign are exact on sectors.                                        *)
(*  - np.random is a generator with a stream of standard normal samples:   *)
(*    draw number k of the stream is Gauss(k), scaled by the standard      *)
(*    deviation; a call starts at some position of the stream and takes    *)
(*    its draws from consecutive positions.                                *)
(***************************************************************************)
EXTENDS Integers, Sequences, FiniteSets, TLC

VARIABLES FOV, resolution, max_distance, noise_cov, pose, last_z, map, out

vars == <<FOV, resolution, max_distance, noise_cov, pose, last_z, map, out>>

(* ------------------------------ bounds -------------------------------- *)
\* the heading theta ranges over -MaxTheta..MaxTheta quarter turns
MaxTheta == 5
\* a map has at most MaxPts points
MaxPts == 3

(* --------------------------- program constants ------------------------ *)
\* np.pi, in quarter turns
Pi == 2
\* th_for_corners = 0.05 = 1 / th_for_corners_inv
th_for_corners_inv == 20

(* ------------------------------ inputs -------------------------------- *)
Coords_x == {-1, 3}
Coords_y == {-1, 2}
Points == Coords_x \X Coords_y
\* the maps: up to MaxPts points, consecutive points distinct
Maps ==
  {m \in UNION {[1..n -> Points] : n \in 0..MaxPts} :
     \A j \in 1..(Len(m) - 1) : m[j] # m[j + 1]}
\* the positions of the generator's stream at which a call may start
StreamStarts == {0, 1}
Positions == {<<0, 0>>, <<1, 1>>}
Poses == {<<p[1], p[2], th>> : p \in Positions, th \in -MaxTheta..MaxTheta}
\* FOV: pi, 2 pi; resolution: pi/2, pi, 3 pi/2; max_distance
FOVs == {2, 4}
Resolutions == {1, 2, 3}
Ranges == {2}
Variances == {0, 1}

(* ----------------------------- arithmetic ----------------------------- *)
Abs(v) == IF v < 0 THEN -v ELSE v

Sign(v) == IF v > 0 THEN 1 ELSE IF v < 0 THEN -1 ELSE 0

RECURSIVE GCD(_, _)
GCD(a, b) == IF b = 0 THEN Abs(a) ELSE GCD(b, a % Abs(b))

\* math.floor(n / d), d # 0
Floor(n, d) == IF d > 0 THEN n \div d ELSE (-n) \div (-d)

\* the integer square root
ISqrt(n) == CHOOSE r \in 0..n : r * r <= n /\ (r + 1) * (r + 1) > n

\* the rational n/d (d # 0) in lowest terms, denominator positive
Rat(n, d) ==
  LET g == GCD(n, d)
      s == IF d < 0 THEN -1 ELSE 1
  IN <<(s * n) \div g, (s * d) \div g>>

RatLess(a, b) == a[1] * b[2] < b[1] * a[2]

RatAddInt(a, k) == Rat(a[1] + k * a[2], a[2])

\* np.cos, np.sin of a whole number of quarter turns
Cos(phi) ==
  LET k == phi % 4
  IN IF k = 0 THEN 1 ELSE IF k = 2 THEN -1 ELSE 0

Sin(phi) ==
  LET k == phi % 4
  IN IF k = 1 THEN 1 ELSE IF k = 3 THEN -1 ELSE 0

\* math.atan2(Y, X) as a sector in -3..4 (atan2 returns an angle in (-pi, pi])
Atan2Sector(Y, X) ==
  IF Y = 0 THEN (IF X < 0 THEN 4 ELSE 0)
  ELSE IF Y > 0 THEN (IF X > 0 THEN 1 ELSE IF X = 0 THEN 2 ELSE 3)
  ELSE (IF X > 0 THEN -1 ELSE IF X = 0 THEN -2 ELSE -3)

\* draw number k of the generator's stream, a standard normal sample
Gauss(k) == (k % 3) - 1

\* (mutant) the sample is not scaled by the standard deviation
Normal_unscaled(variance, k) == Gauss(k)

\* np.random.normal(0, np.sqrt(variance)) at stream position k, variance >= 0
Normal(variance, k) == ISqrt(variance) * Gauss(k)

(* ------------------------- take_observation --------------------------- *)
Sq(v) == v * v

\* the auxiliary function of line 70
det(a, b) == a[1] * b[2] - a[2] * b[1]

\* (mutant) one beam short: floor(FOV/resolution)
n_beams_floor_only == Floor(FOV, resolution)

\* n_beams of line 42
n_beams == Floor(FOV, resolution) + 1

\* seg_distance[i_line] of line 43, squared (the root is taken where it is
\* compared, in WithinCorner)
seg_distance_sq(m, i_line) ==
  Sq(m[i_line][1] - m[i_line + 1][1]) + Sq(m[i_line][2] - m[i_line + 1][2])

\* line 50: the beam's orientation before the wrap
BeamAngle(p, i_beam) == i_beam * resolution - (FOV \div 2) + p[3]

\* lines 53-54 (and 97-98 with sectors: pi there is 2 * Pi)
AngleWarp(phi, pi) ==
  IF phi > pi THEN phi - 2 * pi
  ELSE IF phi < -pi THEN phi + 2 * pi
  ELSE phi

\* lines 57-58: the beam's endpoint
BeamEnd(p, phi) ==
  <<p[1] + max_distance * Cos(phi), p[2] + max_distance * Sin(phi)>>

\* lines 66-79: the intersection of the line through segment i_line with the
\* line through the pose and the beam's endpoint e: <<>> when div == 0, else
\* the point (x, y) as <<xn, yn, q>>, x = xn/q, y = yn/q, q > 0
Intersect(m, p, e, i_line) ==
  LET xdiff == <<m[i_line][1] - m[i_line + 1][1], p[1] - e[1]>>
      ydiff == <<m[i_line][2] - m[i_line + 1][2], p[2] - e[2]>>
      div == det(xdiff, ydiff)
      de == <<det(m[i_line], m[i_line + 1]), det(<<p[1], p[2]>>, e)>>
      xn == det(de, xdiff)
      yn == det(de, ydiff)
      g == GCD(GCD(xn, yn), div)
      s == IF div < 0 THEN -1 ELSE 1
  IN IF div = 0 THEN <<>>
     ELSE <<(s * xn) \div g, (s * yn) \div g, (s * div) \div g>>

\* pow(a[0]-x,2)+pow(a[1]-y,2) for the integer point a and the point
\* pt = (xn/q, yn/q), times q*q
DistSqNum(a, pt) == Sq(a[1] * pt[3] - pt[1]) + Sq(a[2] * pt[3] - pt[2])

\* line 81: d_to_intersect.  The intersection lies on the beam's line, which
\* is parallel to an axis, so one of the two squares is 0 and the root exact.
d_to_intersect(p, pt) == Rat(ISqrt(DistSqNum(p, pt)), pt[3])

\* d1 < seg_distance[i_line] + th_for_corners, for d1 = sqrt(dn)/q and
\* seg_distance = sqrt(segsq), decided exactly:
\*   d1 < s + t  <=>  d1^2 - s^2 - t^2 < 2 t s
\* (46340 * 46340 is the largest square below 2^31; r is below 2^31)
WithinCorner(dn, q, segsq) ==
  LET th2 == th_for_corners_inv * th_for_corners_inv
      mi == th2 * (dn - q * q * segsq) - q * q
      r == 4 * th2 * segsq * q * q * q * q
  IN mi < 0 \/ (mi <= 46340 /\ mi * mi < r)

\* lines 85-90: the intersection belongs to the segment
OnSegment(m, i_line, pt) ==
  /\ WithinCorner(DistSqNum(m[i_line], pt), pt[3], seg_distance_sq(m, i_line))
  /\ WithinCorner(DistSqNum(m[i_line + 1], pt), pt[3], seg_distance_sq(m, i_line))

\* lines 94-98: phi_m, as a sector
phi_m(p, pt) ==
  AngleWarp(Atan2Sector(0 - (pt[1] - p[1] * pt[3]), (pt[2] - p[2] * pt[3]) - 0) + Pi,
            2 * Pi)

\* line 100: the direction check
SameDirection(phi, p, pt) == Sign(phi) = Sign(phi_m(p, pt))

\* (mutant) the last accepted intersection wins
Closer_last_hit(d_new, d) == TRUE

\* line 103: the closest intersection wins
Closer(d_new, d) == RatLess(d_new, d)

\* lines 65-104: one iteration of the loop over the lines
LineBody(m, p, phi, i_line, d) ==
  LET pt == Intersect(m, p, BeamEnd(p, phi), i_line)
      dti == d_to_intersect(p, pt)
  IN IF pt = <<>> THEN d
     ELSE IF OnSegment(m, i_line, pt) /\ SameDirection(phi, p, pt)
               /\ Closer(dti, d)
          THEN dti
          ELSE d

\* line 63: for i_line in range(map.shape[1]-1), from i_line with d so far
RECURSIVE LineLoop(_, _, _, _, _)
LineLoop(m, p, phi, i_line, d) ==
  IF i_line > Len(m) - 1 THEN d
  ELSE LineLoop(m, p, phi, i_line + 1, LineBody(m, p, phi, i_line, d))

\* lines 50-54: the beam's orientation
BeamPhi(p, i_beam) == AngleWarp(BeamAngle(p, i_beam), Pi)

\* (mutant) d starts at 0 instead of max_distance
BeamRange_from_zero(m, p, i_beam) ==
  LineLoop(m, p, BeamPhi(p, i_beam), 1, <<0, 1>>)

\* lines 60-104: d of beam i_beam
BeamRange(m, p, i_beam) ==
  LineLoop(m, p, BeamPhi(p, i_beam), 1, <<max_distance, 1>>)

\* (mutant) the bearing noise is drawn before the range noise
BeamDraws_bearing_first(i_beam) ==
  <<(<<i_beam, "bearing">>), (<<i_beam, "range">>)>>

\* lines 107-108: the draws of one beam, in the order they are made
BeamDraws(i_beam) == <<(<<i_beam, "range">>), (<<i_beam, "bearing">>)>>

\* lines 47, 107-108: the draws of one call, in the order they are made
RECURSIVE DrawLog(_)
DrawLog(n) == IF n <= 0 THEN <<>> ELSE DrawLog(n - 1) \o BeamDraws(n - 1)

\* the stream position of draw e of a call that starts at position k and
\* makes the draws of log, in that order
DrawPos(k, log, e) == k + (CHOOSE j \in 1..Len(log) : log[j] = e) - 1

\* line 107: z[0,i_beam].  np.sqrt of a negative variance is nan, and a sum
\* with nan is nan.
Rho(m, p, k, log, i_beam) ==
  IF noise_cov[1][1] < 0 THEN "nan"
  ELSE RatAddInt(BeamRange(m, p, i_beam),
                 Normal(noise_cov[1][1], DrawPos(k, log, <<i_beam, "range">>)))

\* (mutant) the bearing is stored in the world frame: the heading is added
Bearing_with_heading(k, log, i_beam) ==
  i_beam * resolution - (FOV \div 2) + pose[3]
    + Normal(noise_cov[2][2], DrawPos(k, log, <<i_beam, "bearing">>))

\* line 108: z[1,i_beam]
Bearing(k, log, i_beam) ==
  IF noise_cov[2][2] < 0 THEN "nan"
  ELSE i_beam * resolution - (FOV \div 2)
         + Normal(noise_cov[2][2], DrawPos(k, log, <<i_beam, "bearing">>))

\* lines 44-111: the table z
Observation(m, p, k) ==
  LET log == DrawLog(n_beams)
  IN <<[j \in 1..n_beams |-> Rho(m, p, k, log, j - 1)],
       [j \in 1..n_beams |-> Bearing(k, log, j - 1)]>>

(* ------------------------------ the sensor ---------------------------- *)
\* what the latest operation did: op, the operation ("none": the constructor
\* or set_pose); exc, the exception it raised ("none" if it returned); z,
\* the table it returned (<<>> if none); phi, the orientation of each beam
\* of the call; draws, the draws the call made, in order; repeat, whether
\* the operation before it was a take_observation that returned
NoTable(op, exc) ==
  [op |-> op, exc |-> exc, z |-> <<>>, phi |-> <<>>, draws |-> <<>>,
   repeat |-> FALSE]

\* (mutant) the constructor validates its arguments
Laser2D_init_validating(fov, res, md, cov, p) ==
  [FOV |-> fov, resolution |-> res, max_distance |-> md, noise_cov |-> cov,
   pose |-> p, last_z |-> <<>>,
   exc |-> IF fov <= 0 \/ res <= 0 \/ md <= 0 \/ cov[1][1] < 0 \/ cov[2][2] < 0
           THEN "InvalidConfiguration" ELSE "none"]

\* lines 8-23: the constructor stores its arguments
Laser2D_init(fov, res, md, cov, p) ==
  [FOV |-> fov, resolution |-> res, max_distance |-> md, noise_cov |-> cov,
   pose |-> p, last_z |-> <<>>, exc |-> "none"]

\* the state after Laser2D(fov, res, md, cov, p), with the caller's map m
Constructed(fov, res, md, cov, p, m) ==
  LET self == Laser2D_init(fov, res, md, cov, p)
  IN /\ FOV = self.FOV
     /\ resolution = self.resolution
     /\ max_distance = self.max_distance
     /\ noise_cov = self.noise_cov
     /\ pose = self.pose
     /\ last_z = self.last_z
     /\ map = m
     /\ out = NoTable("none", self.exc)

Init ==
  \E fov \in FOVs, r \in Resolutions, md \in Ranges, v0 \in Variances,
     v1 \in Variances, p \in Poses, m \in Maps :
    Constructed(fov, r, md, <<(<<v0, 0>>), (<<0, v1>>)>>, p, m)

\* lines 25-27
set_pose(p) ==
  /\ pose' = p
  /\ out' = NoTable("none", "none")
  /\ UNCHANGED <<FOV, resolution, max_distance, noise_cov, last_z, map>>

\* the exceptions a call of take_observation can end in:
\*  line 42: FOV / 0 raises ZeroDivisionError;
\*  line 44: np.zeros([2, n_beams]) raises ValueError for n_beams < 0;
\*  lines 107-108: np.random.normal(0, nan), reached when a variance is
\*  negative and there is a beam, raises ValueError ("scale < 0", the nan of
\*  np.sqrt has its sign bit set) or returns nan, depending on the numpy build
Raises ==
  IF resolution = 0 THEN {"ZeroDivisionError"}
  ELSE IF n_beams < 0 THEN {"ValueError"}
  ELSE IF n_beams > 0 /\ (noise_cov[1][1] < 0 \/ noise_cov[2][2] < 0)
       THEN {"ValueError", "none"}
  ELSE {"none"}

\* lines 29-111: a call that returns, its draws starting at stream position k
take_observation(k) ==
  /\ "none" \in Raises
  /\ out' = [op |-> "take_observation",
             exc |-> "none",
             z |-> Observation(map, pose, k),
             phi |-> [j \in 1..n_beams |-> BeamPhi(pose, j - 1)],
             draws |-> DrawLog(n_beams),
             repeat |-> out.op = "take_observation" /\ out.exc = "none"]
  /\ UNCHANGED <<FOV, resolution, max_distance, noise_cov, pose, last_z, map>>

\* lines 29-111: a call that raises
take_observation_raises ==
  /\ \E e \in Raises \ {"none"} : out' = NoTable("take_observation", e)
  /\ UNCHANGED <<FOV, resolution, max_distance, noise_cov, pose, last_z, map>>

Next ==
  \/ \E p \in Poses : set_pose(p)
  \/ \E k \in StreamStarts : take_observation(k)

Spec == Init /\ [][Next]_vars

\* the sensor constructed from any arguments, the ones the documentation of
\* the constructor rules out included
FOVsAny == {-2, 0, 2}
ResolutionsAny == {-1, 0, 1, 3}
RangesAny == {-2, 0, 2}
VariancesAny == {-1, 0}

InitAny ==
  \E fov \in FOVsAny, r \in ResolutionsAny, md \in RangesAny,
     v0 \in VariancesAny, v1 \in VariancesAny, p \in Poses,
     m \in {mm \in Maps : Len(mm) <= 2} :
    Constructed(fov, r, md, <<(<<v0, 0>>), (<<0, v1>>)>>, p, m)

NextAny ==
  \/ \E p \in Poses : set_pose(p)
  \/ \E k \in StreamStarts : take_observation(k)
  \/ take_observation_raises

SpecAny == InitAny /\ [][NextAny]_vars

\* the sensor with a field of view of up to three half turns, so that the
\* nominal bearings of the outer beams lie beyond -pi and pi
FOVsWide == {2, 6}

InitWide ==
  \E fov \in FOVsWide, r \in Resolutions, md \in Ranges, v0 \in Variances,
     v1 \in Variances, p \in Poses, m \in {mm \in Maps : Len(mm) <= 2} :
    Constructed(fov, r, md, <<(<<v0, 0>>), (<<0, v1>>)>>, p, m)

SpecWide == InitWide /\ [][Next]_vars

(* ------------------------------ the claims ---------------------------- *)
\* the latest operation was a take_observation that returned its table
Taken == out.op = "take_observation" /\ out.exc = "none"

ZeroNoise == noise_cov[1][1] = 0 /\ noise_cov[2][2] = 0

\* floor(FOV/resolution) + 1 for FOV > 0, resolution > 0
NCols == (FOV \div resolution) + 1

\* the range of beam i_beam in the table returned
RangeOf(i_beam) == out.z[1][i_beam + 1]

\* the nominal angle of beam i_beam in the world frame, and the unit vector
\* of the direction the beam points in
RawPhi(i_beam) == i_beam * resolution - (FOV \div 2) + pose[3]

Dir(i_beam) == <<Cos(RawPhi(i_beam)), Sin(RawPhi(i_beam))>>

Cross(u, v) == u[1] * v[2] - u[2] * v[1]

Dot(u, v) == u[1] * v[1] + u[2] * v[2]

Minus(u, v) == <<u[1] - v[1], u[2] - v[2]>>

Pos == <<pose[1], pose[2]>>

\* The beam's line Pos + t * Dir meets the line map[j] + s * (map[j+1] - map[j])
\* where t = TNum / Den and s = SNum / Den, if Den # 0.
Den(i_beam, j) == Cross(Dir(i_beam), Minus(map[j + 1], map[j]))

TNum(i_beam, j) == Cross(Minus(map[j], Pos), Minus(map[j + 1], map[j]))

SNum(i_beam, j) == Cross(Minus(map[j], Pos), Dir(i_beam))

\* the line of segment j lies ahead of beam i_beam (t > 0)
Ahead(i_beam, j) ==
  Den(i_beam, j) # 0 /\ TNum(i_beam, j) * Den(i_beam, j) > 0

\* the beam does not point at the line of segment j: parallel, or t < 0
FacingAway(i_beam, j) ==
  Den(i_beam, j) = 0 \/ TNum(i_beam, j) * Den(i_beam, j) < 0

\* segment j stands across the beam, at a right angle, and the beam meets it
\* strictly between its endpoints (0 < s < 1), ahead
StraightAt(i_beam, j) ==
  /\ Dot(Dir(i_beam), Minus(map[j + 1], map[j])) = 0
  /\ Ahead(i_beam, j)
  /\ SNum(i_beam, j) * Den(i_beam, j) > 0
  /\ Abs(SNum(i_beam, j)) < Abs(Den(i_beam, j))

\* the distance from the pose to the line of segment j along beam i_beam
DistAhead(i_beam, j) == Rat(TNum(i_beam, j), Den(i_beam, j))

\* C1: with zero noise and a map of one segment, a beam that points straight
\* at the segment at distance D < max_distance reports D, and a beam that
\* faces away from it reports max_distance, for every beam angle.
C1_WallAhead ==
  (Taken /\ ZeroNoise /\ Len(map) = 2) =>
    \A i \in 0..(NCols - 1) :
      /\ (StraightAt(i, 1) /\ RatLess(DistAhead(i, 1), <<max_distance, 1>>))
           => RangeOf(i) = DistAhead(i, 1)
      /\ FacingAway(i, 1) => RangeOf(i) = <<max_distance, 1>>

\* C2: for FOV > 0 and resolution > 0 the table returned has exactly 2 rows
\* and floor(FOV/resolution) + 1 columns, whatever the pose and the map.
C2_TableShape ==
  (Taken /\ FOV > 0 /\ resolution > 0) =>
    /\ Len(out.z) = 2
    /\ Len(out.z[1]) = NCols
    /\ Len(out.z[2]) = NCols

C2_Witness ==
  /\ Taken
  /\ FOV % resolution # 0
  /\ Len(map) = MaxPts
  /\ pose[3] # 0
  /\ Len(out.z[1]) = 2

\* C3: with zero noise and a map of 0 or 1 points the call returns and every
\* range equals max_distance.
C3_EmptyMap ==
  (out.op = "take_observation" /\ ZeroNoise /\ Len(map) <= 1) =>
    /\ out.exc = "none"
    /\ Len(out.z[1]) = NCols
    /\ \A i \in 0..(NCols - 1) : RangeOf(i) = <<max_distance, 1>>

C3_Witness ==
  /\ Taken /\ ZeroNoise /\ Len(map) = 1
  /\ Len(out.z[1]) >= 3
  /\ RangeOf(2) = <<max_distance, 1>>

\* C4: with zero bearing noise row 1 holds i*resolution - FOV/2 for each beam
\* i: not wrapped, and without the heading theta.
C4_Bearings ==
  (Taken /\ noise_cov[2][2] = 0) =>
    /\ Len(out.z[2]) = NCols
    /\ \A i \in 0..(NCols - 1) :
         out.z[2][i + 1] = i * resolution - (FOV \div 2)

C4_Witness ==
  /\ Taken /\ noise_cov[2][2] = 0 /\ noise_cov[1][1] # 0
  /\ pose[3] = 3
  /\ Len(out.z[2]) = 7
  /\ out.z[2][1] = -3 /\ out.z[2][1] < -Pi
  /\ out.z[2][7] = 3 /\ out.z[2][7] > Pi
  /\ out.phi[1] = 0

\* C5: a take_observation leaves the pose and the map as they were, and with
\* zero noise it returns the table the take_observation right before it
\* returned (no set_pose in between).
C5_Idempotent ==
  [][(out'.op = "take_observation" /\ out'.exc = "none") =>
       /\ pose' = pose
       /\ map' = map
       /\ (Taken /\ ZeroNoise) => out'.z = out.z]_vars

C5_Witness ==
  /\ Taken /\ ZeroNoise /\ out.repeat
  /\ \E i \in 0..(NCols - 1) : RatLess(RangeOf(i), <<max_distance, 1>>)

\* the configurations the documentation of the constructor asks for
ValidConfiguration ==
  /\ FOV > 0 /\ resolution > 0 /\ max_distance > 0
  /\ noise_cov[1][1] >= 0 /\ noise_cov[2][2] >= 0

\* C6 as stated: a configuration with resolution <= 0, FOV <= 0,
\* max_distance <= 0 or a negative variance is answered with
\* InvalidConfiguration by the constructor, and never produces an observation.
C6_InvalidConfiguration ==
  ~ValidConfiguration => out = NoTable("none", "InvalidConfiguration")

\* C6 as amended: the constructor validates nothing and raises nothing, and
\* InvalidConfiguration is never raised.  A take_observation raises
\* ZeroDivisionError when resolution = 0 and ValueError when
\* floor(FOV/resolution) + 1 < 0; with a negative variance and at least one
\* beam it raises ValueError or returns a table; in every other case, a
\* max_distance <= 0 among them, it returns a table.
C6_NoValidation ==
  /\ out.exc # "InvalidConfiguration"
  /\ out.op = "none" => out.exc = "none"
  /\ out.op = "take_observation" =>
       IF resolution = 0 THEN out.exc = "ZeroDivisionError"
       ELSE IF Floor(FOV, resolution) + 1 < 0 THEN out.exc = "ValueError"
       ELSE IF Floor(FOV, resolution) + 1 > 0
               /\ (noise_cov[1][1] < 0 \/ noise_cov[2][2] < 0)
            THEN out.exc \in {"none", "ValueError"}
       ELSE /\ out.exc = "none"
            /\ Len(out.z) = 2
            /\ Len(out.z[1]) = Floor(FOV, resolution) + 1

C6_Witness ==
  /\ Taken
  /\ max_distance <= 0 /\ FOV > 0 /\ resolution > 0
  /\ noise_cov[1][1] = 0 /\ noise_cov[2][2] = 0
  /\ Len(map) = 2
  /\ Len(out.z[1]) = 3
  /\ \A j \in 1..3 : out.z[1][j] = <<max_distance, 1>>

\* C7: a call makes exactly 2*n_beams draws: beams in ascending order, and
\* for each beam the range noise before the bearing noise, whatever the map
\* and whether or not the beam hits an obstacle.
C7_Draws ==
  Taken =>
    /\ Len(out.draws) = 2 * NCols
    /\ \A i \in 0..(NCols - 1) :
         /\ out.draws[2 * i + 1] = <<i, "range">>
         /\ out.draws[2 * i + 2] = <<i, "bearing">>

C7_Witness ==
  /\ Taken /\ ZeroNoise /\ Len(out.draws) = 10
  /\ \E i \in 0..(NCols - 1) : RatLess(RangeOf(i), <<max_distance, 1>>)
  /\ \E i \in 0..(NCols - 1) : RangeOf(i) = <<max_distance, 1>>

\* C8: whatever the heading, a range below max_distance is the distance of an
\* intersection that lies ahead of the beam, never of one behind the sensor.
C8_NoHitBehind ==
  (Taken /\ noise_cov[1][1] = 0) =>
    \A i \in 0..(NCols - 1) :
      RatLess(RangeOf(i), <<max_distance, 1>>) =>
        \E j \in 1..(Len(map) - 1) :
          Ahead(i, j) /\ DistAhead(i, j) = RangeOf(i)

\* C9: a beam whose raw angle lies in [-3 pi, 3 pi] has its wrapped angle phi
\* in (-pi, pi]: phi is never -pi.
C9_HalfOpen ==
  Taken =>
    \A i \in 0..(NCols - 1) :
      (RawPhi(i) >= -3 * Pi /\ RawPhi(i) <= 3 * Pi) =>
        (out.phi[i + 1] > -Pi /\ out.phi[i + 1] <= Pi)

\* the distances from the pose to the intersections of beam i_beam that pass
\* the membership check and the direction check
Accepted(i_beam) ==
  {d_to_intersect(pose, Intersect(map, pose, BeamEnd(pose, out.phi[i_beam + 1]), j)) :
     j \in {jj \in 1..(Len(map) - 1) :
              LET pt == Intersect(map, pose, BeamEnd(pose, out.phi[i_beam + 1]), jj)
              IN /\ pt # <<>>
                 /\ OnSegment(map, jj, pt)
                 /\ SameDirection(out.phi[i_beam + 1], pose, pt)}}

RatMin(S) == CHOOSE a \in S : \A b \in S : ~RatLess(b, a)

Reverse(m) == [j \in 1..Len(m) |-> m[Len(m) + 1 - j]]

\* C10: with zero noise the range of a beam is the minimum of max_distance
\* and the distances of the accepted intersections: never above max_distance,
\* and the same with the segments visited in the opposite order.
C10_ClosestHit ==
  (Taken /\ ZeroNoise) =>
    \A i \in 0..(NCols - 1) :
      /\ RangeOf(i) = RatMin(Accepted(i) \cup {<<max_distance, 1>>})
      /\ ~RatLess(<<max_distance, 1>>, RangeOf(i))
      /\ RangeOf(i) = BeamRange(Reverse(map), pose, i)

C10_Witness ==
  /\ Taken /\ ZeroNoise /\ Len(map) = 3
  /\ \E i \in 0..(NCols - 1) :
       LET d1 == d_to_intersect(pose, Intersect(map, pose, BeamEnd(pose, out.phi[i + 1]), 1))
           d2 == d_to_intersect(pose, Intersect(map, pose, BeamEnd(pose, out.phi[i + 1]), 2))
       IN /\ Cardinality(Accepted(i)) = 2
          /\ RatLess(d1, d2)
          /\ RangeOf(i) = d1
  /\ \E i \in 0..(NCols - 1) :
       \E d \in Accepted(i) : RatLess(<<max_distance, 1>>, d)

====
